---- MODULE Spec2Model ----
(***************************************************************************)
(* Model of the supermarket dashboard's cart and checkout logic and of its  *)
(* list and profile loading (frontend/src/pages/SupermarketDashboard.js),  *)
(* and of the buyers aggregation of the backend (getSupplierBuyers).       *)
(*                                                                         *)
(* The cart is React state: a sequence of { product, qty } lines.  Every   *)
(* handler runs to completion before the next event; the only suspension   *)
(* points are the awaits inside placeOrder, modelled by the variable pc.   *)
(* Operations are taken at the level of the handler functions: any         *)
(* operation may be called with any input of the enumerated input sets.    *)
(* Two guards only bound the exploration: InWindow keeps the quantities    *)
(* next to 0 and next to the cap of 999, and Edit limits the cart edits    *)
(* made while a POST is in flight.                                         *)
(* The toast notification (setToast) is presentation only and is left out. *)
(* Spec and SpecCheckout follow the cart and the checkout form, SpecUI the *)
(* same handlers behind the controls of the rendered page, SpecLoad the    *)
(* fetches of the lists and of the profile, SpecAgg the aggregation.       *)
(*                                                                         *)
(* JavaScript values that the code coerces (prices, the quantity typed     *)
(* into the quantity field) are tagged records, so that Number(), || and   *)
(* NaN propagation are computed as the code computes them.  Quantities     *)
(* and prices are integers: fractional values are outside the model.       *)
(***************************************************************************)
EXTENDS Integers, Sequences, FiniteSets, TLC

(***************************************************************************)
(* Bounds of the exploration.                                              *)
(***************************************************************************)
\* Quantities are explored up to QtyLow above 0, and next to the cap of 999.
QtyLow == 1
\* At most this many cart edits are explored while a POST is in flight.
MaxEditsInFlight == 1

(***************************************************************************)
(* JavaScript values.                                                      *)
(***************************************************************************)
JNum(n) == [t |-> "num", v |-> n]
JNaN == [t |-> "nan", v |-> 0]
JInf == [t |-> "inf", v |-> 0]
JUndef == [t |-> "undef", v |-> 0]
\* a non-empty string that is not the text of a number, e.g. "abc"
JStr == [t |-> "str", v |-> 0]

\* JavaScript truthiness: 0, NaN and undefined are falsy
Truthy(x) == (x.t = "num" /\ x.v # 0) \/ x.t = "str" \/ x.t = "inf"

\* the expression  x || 0
OrZero(x) == IF Truthy(x) THEN x ELSE JNum(0)

\* Number(x)
ToNumber(x) ==
  IF x.t \in {"num", "nan", "inf"} THEN x ELSE JNaN

\* Number.isFinite(x)
IsFinite(x) == x.t = "num"

\* a * b for a, b numbers that are finite or NaN
JMul(a, b) ==
  IF a.t = "num" /\ b.t = "num" THEN JNum(a.v * b.v) ELSE JNaN

\* a + b for a, b numbers that are finite or NaN
JAdd(a, b) ==
  IF a.t = "num" /\ b.t = "num" THEN JNum(a.v + b.v) ELSE JNaN

(***************************************************************************)
(* Products.  A field that is absent, null or the empty string is "".      *)
(* supplier_oid is supplier._id of a populated supplier object, supplier   *)
(* is a bare supplier reference.                                           *)
(***************************************************************************)
Null == ""

Product(id, price, sid, sId, soid, s) ==
  [_id |-> id, price |-> price, supplier_id |-> sid, supplierId |-> sId,
   supplier_oid |-> soid, supplier |-> s]

ItemA == Product("a", JNum(10), "S1", "", "", "")
ItemB == Product("b", JStr, "", "", "", "S2")
ItemC == Product("c", JUndef, "", "", "S1", "")
ItemD == Product("d", JNum(7), "", "", "", "")

\* the products an operation may be called with
Catalog == {ItemA, ItemB, ItemC, ItemD}

\* ItemD has no supplier, so "d" is the id of an item that is never in the cart
ProductIds == {p._id : p \in Catalog}

getProductSupplierId_Default(p) ==
  IF p.supplier_id # "" THEN p.supplier_id
  ELSE IF p.supplierId # "" THEN p.supplierId
  ELSE IF p.supplier_oid # "" THEN p.supplier_oid
  ELSE IF p.supplier # "" THEN p.supplier
  ELSE "S1"

getProductSupplierId(p) ==
  IF p.supplier_id # "" THEN p.supplier_id
  ELSE IF p.supplierId # "" THEN p.supplierId
  ELSE IF p.supplier_oid # "" THEN p.supplier_oid
  ELSE IF p.supplier # "" THEN p.supplier
  ELSE Null

(***************************************************************************)
(* Cart reducers: the functions handed to setCart.                         *)
(***************************************************************************)
Min(a, b) == IF a < b THEN a ELSE b
Max(a, b) == IF a > b THEN a ELSE b

Line(p, q) == [product |-> p, qty |-> q]

\* prev.findIndex((x) => x.product?._id === id); 0 stands for -1
findIndex(prev, id) ==
  IF \E i \in 1..Len(prev) : prev[i].product._id = id
  THEN CHOOSE i \in 1..Len(prev) :
         /\ prev[i].product._id = id
         /\ \A j \in 1..(i - 1) : prev[j].product._id # id
  ELSE 0

\* .filter((x) => x.qty > 0)
PositiveQty(x) == x.qty > 0

addToCartFn_NoCap(prev, product) ==
  LET idx == findIndex(prev, product._id) IN
  IF idx > 0
  THEN [prev EXCEPT ![idx].qty = prev[idx].qty + 1]
  ELSE Append(prev, Line(product, 1))

addToCartFn(prev, product) ==
  LET idx == findIndex(prev, product._id) IN
  IF idx > 0
  THEN [prev EXCEPT ![idx].qty = Min(999, prev[idx].qty + 1)]
  ELSE Append(prev, Line(product, 1))

updateQtyFn(prev, productId, n) ==
  SelectSeq([i \in 1..Len(prev) |->
               IF prev[i].product._id = productId
               THEN [prev[i] EXCEPT !.qty = Max(0, n)]
               ELSE prev[i]],
            PositiveQty)

incQtyFn_NoCap(prev, productId) ==
  [i \in 1..Len(prev) |->
     IF prev[i].product._id = productId
     THEN [prev[i] EXCEPT !.qty = prev[i].qty + 1]
     ELSE prev[i]]

incQtyFn(prev, productId) ==
  [i \in 1..Len(prev) |->
     IF prev[i].product._id = productId
     THEN [prev[i] EXCEPT !.qty = Min(999, prev[i].qty + 1)]
     ELSE prev[i]]

decQtyFn(prev, productId) ==
  SelectSeq([i \in 1..Len(prev) |->
               IF prev[i].product._id = productId
               THEN [prev[i] EXCEPT !.qty = Max(0, prev[i].qty - 1)]
               ELSE prev[i]],
            PositiveQty)

cartSupplierIdOf_Null(c) == Null

\* cartSupplierId: the supplier of the first line, null for an empty cart
cartSupplierIdOf(c) ==
  IF Len(c) = 0 THEN Null ELSE getProductSupplierId(c[1].product)

RECURSIVE cartTotalFrom(_, _, _)
\* cart.reduce((sum, x) => sum + Number(price || 0) * Number(qty || 0), 0)
cartTotalFrom(c, i, sum) ==
  IF i > Len(c) THEN sum
  ELSE cartTotalFrom(c, i + 1,
         JAdd(sum, JMul(ToNumber(OrZero(c[i].product.price)),
                        ToNumber(OrZero(JNum(c[i].qty))))))

cartTotalOf(c) == cartTotalFrom(c, 1, JNum(0))

(***************************************************************************)
(* Strings of the checkout form are sequences of characters, so that       *)
(* String.prototype.trim is computed.                                      *)
(***************************************************************************)
IsSpace(ch) == ch \in {" ", "\t", "\n"}

RECURSIVE TrimLeft(_)
TrimLeft(s) ==
  IF Len(s) > 0 /\ IsSpace(Head(s)) THEN TrimLeft(Tail(s)) ELSE s

RECURSIVE TrimRight(_)
TrimRight(s) ==
  IF Len(s) > 0 /\ IsSpace(s[Len(s)])
  THEN TrimRight(SubSeq(s, 1, Len(s) - 1))
  ELSE s

Trim_Nothing(s) == s

Trim(s) == TrimRight(TrimLeft(s))

(***************************************************************************)
(* Messages handed to setErr.                                              *)
(***************************************************************************)
NoErr == ""
ErrNoSupplier == "This product has no supplier info. Add supplier_id to product in DB."
ErrMixedSupplier == "Cart can contain products from ONE supplier only. Clear cart to switch supplier."
ErrCartEmpty == "Cart is empty."
ErrCartSupplier == "Cannot place order: supplier not found for cart items."
ErrNoAddress == "Please enter delivery address."
ErrSupplierMissing == "Supplier ID missing in cart items."
ErrOrderFailed == "Order failed"
ErrPlaceOrderFailed == "Place order failed"
ErrOrdersLoad == "Failed to load orders"

(***************************************************************************)
(* Input sets.                                                             *)
(***************************************************************************)
\* the quantities explored: near 0 and near the cap of 999
Window == (1..QtyLow) \cup ((999 - 1)..(999 + 1))

InWindow(c) == \A i \in 1..Len(c) : c[i].qty \in Window

\* values the quantity field hands to updateQty
QtyInputs == {JNum(n) : n \in {-1, 0} \cup Window} \cup {JNaN, JInf}

Addresses == {<<>>, <<" ", " ">>, <<" ", "x", " ">>}
Dates == {"", "2026-01-01"}
PaymentMethods == {"cash", "bank", "card"}
Notes == {"", "leave at gate"}
Tabs == {"products", "cart", "orders", "profile"}
\* bodies of GET /api/orders
OrderLists == {<<"o1">>}
\* message field of a non-2xx body ("" when the body carries none)
ServerMessages == {"", "Out of stock"}

NoPayload == [supplier_id |-> Null]

(***************************************************************************)
(* Response bodies.  A parsed body is null, an array or an object; an      *)
(* object's absent field reads as "" or as the empty list, which  ||       *)
(* treats like the field's absence.                                        *)
(***************************************************************************)
JBody(t, list, message, ordersField, productsField, name) ==
  [t |-> t, list |-> list, message |-> message, orders |-> ordersField,
   products |-> productsField, name |-> name]

JNull == JBody("null", <<>>, "", <<>>, <<>>, "")
JArr(list) == JBody("arr", list, "", <<>>, <<>>, "")
JObj(message, ordersField, productsField, name) ==
  JBody("obj", <<>>, message, ordersField, productsField, name)

\* the texts a response body is drawn from
TextArray == "[\"n1\"]"
TextOrders == "{\"orders\":[\"n2\"]}"
TextProducts == "{\"products\":[\"n3\"]}"
TextMessage == "{\"message\":\"Server down\"}"
TextProfileA == "{\"name\":\"Fresh\"}"
TextProfileB == "{\"name\":\"Mart\"}"
TextNull == "null"
TextHtml == "<html>502</html>"
TextEmpty == ""

\* texts for which  text.trim().startsWith("<!DOCTYPE") || ...("<html")
HtmlTexts == {TextHtml}

\* texts JSON.parse accepts, with what it returns
JsonTexts == {TextArray, TextOrders, TextProducts, TextMessage, TextProfileA,
              TextProfileB, TextNull}

JSONparse(text) ==
  CASE text = TextArray -> JArr(<<"n1">>)
    [] text = TextOrders -> JObj("", <<"n2">>, <<>>, "")
    [] text = TextProducts -> JObj("", <<>>, <<"n3">>, "")
    [] text = TextMessage -> JObj("Server down", <<>>, <<>>, "")
    [] text = TextProfileA -> JObj("", <<>>, <<>>, "Fresh")
    [] text = TextProfileB -> JObj("", <<>>, <<>>, "Mart")
    [] text = TextNull -> JNull

safeJson(text) ==
  IF text = "" THEN JObj("", <<>>, <<>>, "")
  ELSE IF text \in HtmlTexts THEN JObj(text, <<>>, <<>>, "")
  ELSE IF text \in JsonTexts THEN JSONparse(text)
  ELSE JObj(text, <<>>, <<>>, "")

\* a response: status 2xx or not, and the text of the body
Response(ok, text) == [ok |-> ok, text |-> text]

\* what a fetch settles with: a response, or a rejection (network failure)
NetworkFailure == [ok |-> FALSE, text |-> "Failed to fetch"]

ErrFailedToFetch == "Failed to fetch"
ErrNullMessage == "Cannot read properties of null (reading 'message')"
ErrNullOrders == "Cannot read properties of null (reading 'orders')"
ErrNullProducts == "Cannot read properties of null (reading 'products')"
ErrProductsLoad == "Failed to load products"
ErrNoProfile == "Cannot load profile (no working /me endpoint)."

PrimaryMe == "/api/supermarket/me"
SecondaryMe == "/api/auth/me"
candidates == <<PrimaryMe, SecondaryMe>>

\* the two lists the dashboard fetches
Resources == {"orders", "products"}

\* history: no response has arrived yet
NoArrival == [call |-> 0, res |-> Response(FALSE, "")]
NoArrivals == [r \in Resources |-> [last |-> NoArrival, good |-> NoArrival]]

\* no answer of getSupplierBuyers yet
NoResult == [status |-> "none", body |-> <<>>]

(***************************************************************************)
(* State.                                                                  *)
(***************************************************************************)
VARIABLES
  cart,             \* useState([]): sequence of { product, qty }
  err,              \* useState(""): the error banner
  tab,              \* useState("products")
  placing,          \* useState(false)
  checkoutOpen,     \* useState(false)
  deliveryAddress,  \* useState("")
  deliveryDate,     \* useState("")
  paymentMethod,    \* useState("cash")
  orderNote,        \* useState("")
  orders,           \* useState([])
  loadingOrders,    \* useState(true)
  pc,               \* position of the placeOrder call: idle, posting, refreshing
  payload,          \* body of the POST /api/orders in flight
  posts,            \* the POST /api/orders requests in flight
  lastOp,           \* history: the add, increment or decrement that ran last
  edits,            \* history: cart edits since the POST in flight was sent
  lastAddSup,       \* history: supplier of the last successful add
  sinceAdd,         \* history: what emptied the cart since that add
  products,         \* useState([]): the product list on display
  loadingProducts,  \* useState(true)
  me,               \* useState(null): the profile on display
  loadingMe,        \* useState(true)
  calls,            \* the loadProducts / loadOrders calls, in the order issued
  lastArrival,      \* history: per resource, the response that arrived last
  mePc,             \* position of the loadMe call: idle, primary, secondary
  meTried,          \* history: the endpoints the loadMe call has queried
  orderDocs,        \* the Order collection of the backend
  markets,          \* the Supermarket collection of the backend
  aggPc,            \* position of getSupplierBuyers: idle, find
  aggSupplier,      \* req.user.id of the request being served
  aggRows,          \* rows returned by Order.aggregate
  aggResult         \* what the request was answered with

cartVars == <<cart, lastAddSup, sinceAdd, edits>>
formVars == <<checkoutOpen, deliveryAddress, deliveryDate, paymentMethod, orderNote>>
orderVars == <<orders, loadingOrders>>
callVars == <<placing, pc, payload, posts>>
vars == <<cart, err, tab, placing, checkoutOpen, deliveryAddress, deliveryDate,
          paymentMethod, orderNote, orders, loadingOrders, pc, payload, posts,
          lastOp, edits, lastAddSup, sinceAdd,
          products, loadingProducts, me, loadingMe, calls, lastArrival,
          mePc, meTried,
          orderDocs, markets, aggPc, aggSupplier, aggRows, aggResult>>
loadVars == <<products, loadingProducts, me, loadingMe, calls, lastArrival,
              mePc, meTried>>
aggVars == <<orderDocs, markets, aggPc, aggSupplier, aggRows, aggResult>>
\* what the cart and checkout handlers never touch
sideVars == <<loadVars, aggVars>>

cartSupplierId == cartSupplierIdOf(cart)
cartTotal == cartTotalOf(cart)

Op(name, id) == [op |-> name, id |-> id]

\* a cart edit, counted while a POST is in flight
Edit ==
  /\ pc = "posting" => edits < MaxEditsInFlight
  /\ edits' = IF pc = "posting" THEN edits + 1 ELSE edits

\* The component once the three fetches of the mount effect have settled.
Init ==
  /\ cart = <<>>
  /\ err = NoErr
  /\ tab = "products"
  /\ placing = FALSE
  /\ checkoutOpen = FALSE
  /\ deliveryAddress = <<>>
  /\ deliveryDate = ""
  /\ paymentMethod = "cash"
  /\ orderNote = ""
  /\ orders = <<>>
  /\ loadingOrders = FALSE
  /\ pc = "idle"
  /\ payload = NoPayload
  /\ posts = 0
  /\ lastOp = Op("other", "")
  /\ edits = 0
  /\ lastAddSup = Null
  /\ sinceAdd = "none"
  /\ products = <<"a", "b", "c", "d">>
  /\ loadingProducts = FALSE
  /\ me = JObj("", <<>>, <<>>, "Fresh")
  /\ loadingMe = FALSE
  /\ calls = <<>>
  /\ lastArrival = NoArrivals
  /\ mePc = "idle"
  /\ meTried = <<>>
  /\ orderDocs = <<>>
  /\ markets = {}
  /\ aggPc = "idle"
  /\ aggSupplier = Null
  /\ aggRows = <<>>
  /\ aggResult = NoResult

\* history of how the cart became empty since the last successful add
Emptied(c) ==
  IF Len(c) = 0 /\ sinceAdd = "fresh" THEN "emptied" ELSE sinceAdd

\* history: a successful add whose supplier differs from the previous
\* successful add's, named after what happened to the cart in between
SwitchOp(since) ==
  IF since = "cleared" THEN "addAfterClear"
  ELSE IF since = "emptied" THEN "addAfterEmptied"
  ELSE "addAfterNothing"

\* the single-supplier check of addToCart
differentSupplier_Never(supplierId) == FALSE

differentSupplier(supplierId) ==
  cartSupplierId # Null /\ supplierId # cartSupplierId

(***************************************************************************)
(* Cart actions.                                                           *)
(***************************************************************************)
addToCart(product) ==
  LET supplierId == getProductSupplierId(product) IN
  /\ IF supplierId = Null
     THEN /\ err' = ErrNoSupplier
          /\ lastOp' = Op("add", "")
          /\ UNCHANGED cartVars
     ELSE IF differentSupplier(supplierId)
     THEN /\ err' = ErrMixedSupplier
          /\ lastOp' = Op("add", "")
          /\ UNCHANGED cartVars
     ELSE /\ err' = NoErr
          /\ cart' = addToCartFn(cart, product)
          /\ InWindow(cart')
          /\ Edit
          /\ lastOp' = Op(IF lastAddSup \in {Null, supplierId} THEN "add"
                          ELSE SwitchOp(sinceAdd), "")
          /\ lastAddSup' = supplierId
          /\ sinceAdd' = "fresh"
  /\ UNCHANGED <<tab, formVars, orderVars, callVars>>
  /\ UNCHANGED sideVars

updateQty(productId, qty) ==
  LET n == ToNumber(qty) IN
  /\ lastOp' = Op("other", "")
  /\ IF ~IsFinite(n)
     THEN UNCHANGED cartVars
     ELSE /\ cart' = updateQtyFn(cart, productId, n.v)
          /\ Edit
          /\ sinceAdd' = Emptied(cart')
          /\ UNCHANGED lastAddSup
  /\ UNCHANGED <<err, tab, formVars, orderVars, callVars>>
  /\ UNCHANGED sideVars

incQty(productId) ==
  /\ lastOp' = Op("increment", productId)
  /\ cart' = incQtyFn(cart, productId)
  /\ InWindow(cart')
  /\ Edit
  /\ UNCHANGED <<lastAddSup, sinceAdd>>
  /\ UNCHANGED <<err, tab, formVars, orderVars, callVars>>
  /\ UNCHANGED sideVars

decQty(productId) ==
  /\ lastOp' = Op("decrement", productId)
  /\ cart' = decQtyFn(cart, productId)
  /\ InWindow(cart')
  /\ Edit
  /\ sinceAdd' = Emptied(cart')
  /\ UNCHANGED lastAddSup
  /\ UNCHANGED <<err, tab, formVars, orderVars, callVars>>
  /\ UNCHANGED sideVars

\* the assignments of clearCart, shared with placeOrder's success path
clearCartState_KeepsPayment ==
  /\ cart' = <<>>
  /\ checkoutOpen' = FALSE
  /\ deliveryAddress' = <<>>
  /\ deliveryDate' = ""
  /\ orderNote' = ""
  /\ sinceAdd' = IF sinceAdd = "none" THEN "none" ELSE "cleared"
  /\ UNCHANGED <<lastAddSup, paymentMethod>>

clearCartState ==
  /\ cart' = <<>>
  /\ checkoutOpen' = FALSE
  /\ deliveryAddress' = <<>>
  /\ deliveryDate' = ""
  /\ paymentMethod' = "cash"
  /\ orderNote' = ""
  /\ sinceAdd' = IF sinceAdd = "none" THEN "none" ELSE "cleared"
  /\ UNCHANGED lastAddSup

clearCart ==
  /\ lastOp' = Op("other", "")
  /\ clearCartState
  /\ Edit
  /\ UNCHANGED <<err, tab, orderVars, callVars>>
  /\ UNCHANGED sideVars

(***************************************************************************)
(* Checkout form and navigation.                                           *)
(***************************************************************************)
setTab(t) ==
  /\ tab' = t
  /\ lastOp' = Op("other", "")
  /\ UNCHANGED <<cartVars, err, formVars, orderVars, callVars>>
  /\ UNCHANGED sideVars

setCheckoutOpen(b) ==
  /\ checkoutOpen' = b
  /\ lastOp' = Op("other", "")
  /\ UNCHANGED <<cartVars, err, tab, deliveryAddress, deliveryDate,
                 paymentMethod, orderNote, orderVars, callVars>>
  /\ UNCHANGED sideVars

setDeliveryAddress(a) ==
  /\ deliveryAddress' = a
  /\ lastOp' = Op("other", "")
  /\ UNCHANGED <<cartVars, err, tab, checkoutOpen, deliveryDate,
                 paymentMethod, orderNote, orderVars, callVars>>
  /\ UNCHANGED sideVars

setDeliveryDate(d) ==
  /\ deliveryDate' = d
  /\ lastOp' = Op("other", "")
  /\ UNCHANGED <<cartVars, err, tab, checkoutOpen, deliveryAddress,
                 paymentMethod, orderNote, orderVars, callVars>>
  /\ UNCHANGED sideVars

setPaymentMethod(m) ==
  /\ paymentMethod' = m
  /\ lastOp' = Op("other", "")
  /\ UNCHANGED <<cartVars, err, tab, checkoutOpen, deliveryAddress,
                 deliveryDate, orderNote, orderVars, callVars>>
  /\ UNCHANGED sideVars

setOrderNote(n) ==
  /\ orderNote' = n
  /\ lastOp' = Op("other", "")
  /\ UNCHANGED <<cartVars, err, tab, checkoutOpen, deliveryAddress,
                 deliveryDate, paymentMethod, orderVars, callVars>>
  /\ UNCHANGED sideVars

(***************************************************************************)
(* Order submission.                                                       *)
(***************************************************************************)
\* the expression  s || d  for strings
OrElse_NoDefault(s, d) == s

OrElse(s, d) == IF s = "" THEN d ELSE s

\* the same for strings held as character sequences
OrElseChars(s, d) == IF Len(s) = 0 THEN d ELSE s

payloadItems(c) ==
  [i \in 1..Len(c) |->
     [product_id |-> c[i].product._id, qty |-> c[i].qty,
      price |-> c[i].product.price]]

buildPayload_RawPayment(c, supplierId, extra) ==
  [supplier_id |-> supplierId,
   items |-> payloadItems(c),
   delivery_address |-> OrElseChars(extra.delivery_address, <<>>),
   delivery_date |-> OrElse(extra.delivery_date, ""),
   payment_method |-> extra.payment_method,
   note |-> OrElse(extra.note, ""),
   total_amount |-> cartTotalOf(c)]

buildPayload(c, supplierId, extra) ==
  [supplier_id |-> supplierId,
   items |-> payloadItems(c),
   delivery_address |-> OrElseChars(extra.delivery_address, <<>>),
   delivery_date |-> OrElse(extra.delivery_date, ""),
   payment_method |-> OrElse(extra.payment_method, "cash"),
   note |-> OrElse(extra.note, ""),
   total_amount |-> cartTotalOf(c)]

\* placeOrder up to its first await
placeOrder(extra) ==
  IF Len(cart) = 0
  THEN /\ err' = ErrCartEmpty
       /\ tab' = "products"
       /\ UNCHANGED callVars
  ELSE IF cartSupplierId = Null
  THEN /\ err' = ErrCartSupplier
       /\ UNCHANGED <<tab, callVars>>
  ELSE /\ err' = NoErr
       /\ placing' = TRUE
       /\ payload' = buildPayload(cart, cartSupplierId, extra)
       /\ posts' = posts + 1
       /\ pc' = "posting"
       /\ UNCHANGED tab

\* onClick of the Confirm Order button, which is disabled while placing
confirmOrder_NotDisabled ==
  /\ lastOp' = Op("other", "")
  /\ IF Trim(deliveryAddress) = <<>>
     THEN /\ err' = ErrNoAddress
          /\ UNCHANGED <<tab, callVars>>
     ELSE IF cartSupplierId = Null
     THEN /\ err' = ErrSupplierMissing
          /\ UNCHANGED <<tab, callVars>>
     ELSE placeOrder([delivery_address |-> deliveryAddress,
                      delivery_date |-> deliveryDate,
                      payment_method |-> paymentMethod,
                      note |-> orderNote])
  /\ UNCHANGED <<cartVars, formVars, orderVars>>
  /\ UNCHANGED sideVars

confirmOrder ==
  /\ ~placing
  /\ lastOp' = Op("other", "")
  /\ IF Trim(deliveryAddress) = <<>>
     THEN /\ err' = ErrNoAddress
          /\ UNCHANGED <<tab, callVars>>
     ELSE IF cartSupplierId = Null
     THEN /\ err' = ErrSupplierMissing
          /\ UNCHANGED <<tab, callVars>>
     ELSE placeOrder([delivery_address |-> deliveryAddress,
                      delivery_date |-> deliveryDate,
                      payment_method |-> paymentMethod,
                      note |-> orderNote])
  /\ UNCHANGED <<cartVars, formVars, orderVars>>
  /\ UNCHANGED sideVars

\* POST /api/orders answered 2xx: placeOrder up to the await inside loadOrders
postAccepted_NoRefresh ==
  /\ pc = "posting"
  /\ lastOp' = Op("other", "")
  /\ clearCartState
  /\ edits' = 0
  /\ tab' = "orders"
  /\ err' = NoErr
  /\ placing' = FALSE
  /\ pc' = "idle"
  /\ payload' = NoPayload
  /\ posts' = posts - 1
  /\ UNCHANGED <<loadingOrders, orders>>
  /\ UNCHANGED sideVars

postAccepted ==
  /\ pc = "posting"
  /\ lastOp' = Op("other", "")
  /\ clearCartState
  /\ edits' = 0
  /\ tab' = "orders"
  /\ err' = NoErr
  /\ loadingOrders' = TRUE
  /\ pc' = "refreshing"
  /\ payload' = NoPayload
  /\ posts' = posts - 1
  /\ UNCHANGED <<placing, orders>>
  /\ UNCHANGED sideVars

\* POST /api/orders answered non-2xx with the given message field
postRejected(msg) ==
  /\ pc = "posting"
  /\ lastOp' = Op("other", "")
  /\ err' = OrElse(msg, ErrOrderFailed)
  /\ placing' = FALSE
  /\ pc' = "idle"
  /\ payload' = NoPayload
  /\ posts' = posts - 1
  /\ edits' = 0
  /\ UNCHANGED <<cart, lastAddSup, sinceAdd, tab, formVars, orderVars>>
  /\ UNCHANGED sideVars

\* fetch rejects: e.message is the given text
postFailed(msg) ==
  /\ pc = "posting"
  /\ lastOp' = Op("other", "")
  /\ err' = OrElse(msg, ErrPlaceOrderFailed)
  /\ placing' = FALSE
  /\ pc' = "idle"
  /\ payload' = NoPayload
  /\ posts' = posts - 1
  /\ edits' = 0
  /\ UNCHANGED <<cart, lastAddSup, sinceAdd, tab, formVars, orderVars>>
  /\ UNCHANGED sideVars

\* GET /api/orders of the refresh answered 2xx, then placeOrder's finally
ordersLoaded(list) ==
  /\ pc = "refreshing"
  /\ lastOp' = Op("other", "")
  /\ orders' = list
  /\ loadingOrders' = FALSE
  /\ placing' = FALSE
  /\ pc' = "idle"
  /\ UNCHANGED <<cartVars, err, tab, formVars, payload, posts>>
  /\ UNCHANGED sideVars

\* GET /api/orders of the refresh failed, then placeOrder's finally
ordersFailed(msg) ==
  /\ pc = "refreshing"
  /\ lastOp' = Op("other", "")
  /\ err' = OrElse(msg, ErrOrdersLoad)
  /\ loadingOrders' = FALSE
  /\ placing' = FALSE
  /\ pc' = "idle"
  /\ UNCHANGED <<cartVars, tab, formVars, orders, payload, posts>>
  /\ UNCHANGED sideVars

(***************************************************************************)
(* Specification.                                                          *)
(***************************************************************************)
Next ==
  \/ \E p \in Catalog : addToCart(p)
  \/ \E id \in ProductIds, q \in QtyInputs : updateQty(id, q)
  \/ \E id \in ProductIds : incQty(id)
  \/ \E id \in ProductIds : decQty(id)
  \/ clearCart
  \/ \E a \in Addresses : setDeliveryAddress(a)
  \/ confirmOrder
  \/ postAccepted
  \/ \E m \in ServerMessages : postRejected(m)
  \/ \E m \in ServerMessages : postFailed(m)
  \/ \E l \in OrderLists : ordersLoaded(l)
  \/ \E m \in ServerMessages : ordersFailed(m)

Spec == Init /\ [][Next]_vars

\* The checkout form: every field of the modal is edited, over the two
\* products needed to fill and to switch the cart.
CheckoutCatalog == {ItemA, ItemB}

NextCheckout ==
  \/ \E p \in CheckoutCatalog : addToCart(p)
  \/ clearCart
  \/ \E b \in BOOLEAN : setCheckoutOpen(b)
  \/ \E a \in Addresses : setDeliveryAddress(a)
  \/ \E d \in Dates : setDeliveryDate(d)
  \/ \E m \in PaymentMethods : setPaymentMethod(m)
  \/ \E n \in Notes : setOrderNote(n)
  \/ confirmOrder
  \/ postAccepted
  \/ \E m \in ServerMessages : postRejected(m)
  \/ \E m \in ServerMessages : postFailed(m)
  \/ \E l \in OrderLists : ordersLoaded(l)
  \/ \E m \in ServerMessages : ordersFailed(m)

SpecCheckout == Init /\ [][NextCheckout]_vars

(***************************************************************************)
(* The handlers as the rendered page offers them: a control acts only      *)
(* while it is rendered and enabled, and while the checkout modal is open  *)
(* its overlay covers every control of the page beneath.  "Add & Cart" and *)
(* "Go to Cart" are an Add resp. nothing, followed by the Cart tab.        *)
(***************************************************************************)
clickTab(t) ==
  /\ ~checkoutOpen
  /\ setTab(t)

clickAdd(p) ==
  /\ ~checkoutOpen
  /\ tab = "products"
  /\ getProductSupplierId(p) # Null
  /\ addToCart(p)

clickIncrease(id) ==
  /\ ~checkoutOpen
  /\ tab = "cart"
  /\ \E i \in 1..Len(cart) : cart[i].product._id = id
  /\ incQty(id)

clickDecrease(id) ==
  /\ ~checkoutOpen
  /\ tab = "cart"
  /\ \E i \in 1..Len(cart) : cart[i].product._id = id
  /\ decQty(id)

typeQty(id, q) ==
  /\ ~checkoutOpen
  /\ tab = "cart"
  /\ \E i \in 1..Len(cart) : cart[i].product._id = id
  /\ updateQty(id, q)

clickClear ==
  /\ ~checkoutOpen
  /\ tab = "cart"
  /\ Len(cart) # 0
  /\ clearCart

clickProceedToCheckout ==
  /\ ~checkoutOpen
  /\ tab = "cart"
  /\ ~(Len(cart) = 0 \/ placing)
  /\ setCheckoutOpen(TRUE)

\* Cancel, the close button and a click on the overlay
clickCancel ==
  /\ checkoutOpen
  /\ setCheckoutOpen(FALSE)

typeDeliveryAddress(a) ==
  /\ checkoutOpen
  /\ setDeliveryAddress(a)

clickConfirmOrder ==
  /\ checkoutOpen
  /\ confirmOrder

NextUI ==
  \/ \E t \in Tabs : clickTab(t)
  \/ \E p \in Catalog : clickAdd(p)
  \/ \E id \in ProductIds : clickIncrease(id)
  \/ \E id \in ProductIds : clickDecrease(id)
  \/ \E id \in ProductIds, q \in QtyInputs : typeQty(id, q)
  \/ clickClear
  \/ clickProceedToCheckout
  \/ clickCancel
  \/ \E a \in Addresses : typeDeliveryAddress(a)
  \/ clickConfirmOrder
  \/ postAccepted
  \/ \E m \in ServerMessages : postRejected(m)
  \/ \E m \in ServerMessages : postFailed(m)
  \/ \E l \in OrderLists : ordersLoaded(l)
  \/ \E m \in ServerMessages : ordersFailed(m)

SpecUI == Init /\ [][NextUI]_vars

\* the fetch of the POST settles: a response or a rejection
postSettles ==
  \/ postAccepted
  \/ \E m \in ServerMessages : postRejected(m)
  \/ \E m \in ServerMessages : postFailed(m)

\* the fetch of the refresh settles
ordersSettle ==
  \/ \E l \in OrderLists : ordersLoaded(l)
  \/ \E m \in ServerMessages : ordersFailed(m)

\* The page with a network whose every fetch settles in the end, so that the
\* awaits of placeOrder resume.
SpecUIFair ==
  /\ SpecUI
  /\ WF_vars(postSettles)
  /\ WF_vars(ordersSettle)

(***************************************************************************)
(* Loading the lists and the profile: loadProducts, loadOrders, loadMe.    *)
(* Every call suspends at its fetch; the calls in flight settle in any     *)
(* order.                                                                  *)
(***************************************************************************)
\* the Refresh clicks followed after the mount effect
MaxFetches == 1

shopVars == <<cartVars, tab, formVars, callVars, lastOp>>

ListResponses ==
  {Response(TRUE, TextArray), Response(TRUE, TextOrders),
   Response(TRUE, TextProducts), Response(TRUE, TextNull),
   Response(FALSE, TextMessage)}

MeResponses ==
  {Response(TRUE, TextProfileA), Response(TRUE, TextProfileB),
   Response(TRUE, TextNull), Response(TRUE, TextEmpty),
   Response(FALSE, TextMessage)}

Call(r) == [resource |-> r, pending |-> TRUE]

\* The component right after the mount effect ran loadMe(), loadProducts()
\* and loadOrders() up to their fetches.
InitLoad ==
  /\ cart = <<>>
  /\ err = NoErr
  /\ tab = "products"
  /\ placing = FALSE
  /\ checkoutOpen = FALSE
  /\ deliveryAddress = <<>>
  /\ deliveryDate = ""
  /\ paymentMethod = "cash"
  /\ orderNote = ""
  /\ orders = <<>>
  /\ loadingOrders = TRUE
  /\ pc = "idle"
  /\ payload = NoPayload
  /\ posts = 0
  /\ lastOp = Op("other", "")
  /\ edits = 0
  /\ lastAddSup = Null
  /\ sinceAdd = "none"
  /\ products = <<>>
  /\ loadingProducts = TRUE
  /\ me = JNull
  /\ loadingMe = TRUE
  /\ calls = <<Call("products"), Call("orders")>>
  /\ lastArrival = NoArrivals
  /\ mePc = "primary"
  /\ meTried = <<candidates[1]>>
  /\ orderDocs = <<>>
  /\ markets = {}
  /\ aggPc = "idle"
  /\ aggSupplier = Null
  /\ aggRows = <<>>
  /\ aggResult = NoResult

\* what the try block of loadOrders / loadProducts does with a response:
\* it throws an error with a message, or sets the list
Thrown(msg) == [threw |-> TRUE, message |-> msg, list |-> <<>>]
Listed(l) == [threw |-> FALSE, message |-> "", list |-> l]

listHandler(r, res) ==
  LET data == safeJson(res.text) IN
  IF ~res.ok
  THEN IF data.t = "null" THEN Thrown(ErrNullMessage)
       ELSE Thrown(OrElse(data.message,
                          IF r = "orders" THEN ErrOrdersLoad ELSE ErrProductsLoad))
  ELSE IF data.t = "arr" THEN Listed(data.list)
  ELSE IF data.t = "null"
  THEN Thrown(IF r = "orders" THEN ErrNullOrders ELSE ErrNullProducts)
  ELSE Listed(IF r = "orders" THEN data.orders ELSE data.products)

setLoading(r, b) ==
  IF r = "orders"
  THEN loadingOrders' = b /\ UNCHANGED loadingProducts
  ELSE loadingProducts' = b /\ UNCHANGED loadingOrders

setList(r, l) ==
  IF r = "orders"
  THEN orders' = l /\ UNCHANGED products
  ELSE products' = l /\ UNCHANGED orders

\* history: a 2xx response whose body is not null
Usable(res) == res.ok /\ res.text # TextNull

Arrived(r, i, res) ==
  lastArrival' =
    [lastArrival EXCEPT
       ![r] = [last |-> [call |-> i, res |-> res],
               good |-> IF Usable(res) THEN [call |-> i, res |-> res]
                        ELSE @.good]]

\* loadOrders / loadProducts up to the fetch
loadList(r) ==
  /\ Len(calls) < 2 + MaxFetches
  /\ err' = NoErr
  /\ setLoading(r, TRUE)
  /\ calls' = Append(calls, Call(r))
  /\ UNCHANGED <<orders, products, lastArrival, me, loadingMe, mePc, meTried>>
  /\ UNCHANGED <<shopVars, aggVars>>

loadOrders == loadList("orders")

loadProducts == loadList("products")

\* the fetch of call i answered: the rest of loadOrders / loadProducts
loadSettled_LatestCallOnly(i, res) ==
  /\ i \in DOMAIN calls
  /\ calls[i].pending
  /\ LET r == calls[i].resource
         out == listHandler(r, res) IN
     /\ IF out.threw
        THEN /\ err' = OrElse(out.message,
                              IF r = "orders" THEN "Orders load failed"
                              ELSE "Products load failed")
             /\ UNCHANGED <<orders, products>>
        ELSE IF \E j \in DOMAIN calls : j > i /\ calls[j].resource = r
        THEN UNCHANGED <<err, orders, products>>
        ELSE /\ UNCHANGED err
             /\ setList(r, out.list)
     /\ setLoading(r, FALSE)
     /\ Arrived(r, i, res)
  /\ calls' = [calls EXCEPT ![i].pending = FALSE]
  /\ UNCHANGED <<me, loadingMe, mePc, meTried>>
  /\ UNCHANGED <<shopVars, aggVars>>

loadSettled(i, res) ==
  /\ i \in DOMAIN calls
  /\ calls[i].pending
  /\ LET r == calls[i].resource
         out == listHandler(r, res) IN
     /\ IF out.threw
        THEN /\ err' = OrElse(out.message,
                              IF r = "orders" THEN "Orders load failed"
                              ELSE "Products load failed")
             /\ UNCHANGED <<orders, products>>
        ELSE /\ UNCHANGED err
             /\ setList(r, out.list)
     /\ setLoading(r, FALSE)
     /\ Arrived(r, i, res)
  /\ calls' = [calls EXCEPT ![i].pending = FALSE]
  /\ UNCHANGED <<me, loadingMe, mePc, meTried>>
  /\ UNCHANGED <<shopVars, aggVars>>

\* the fetch of call i rejected (network failure): the catch and the finally
loadFetchFailed(i) ==
  /\ i \in DOMAIN calls
  /\ calls[i].pending
  /\ LET r == calls[i].resource IN
     /\ err' = OrElse(ErrFailedToFetch,
                      IF r = "orders" THEN "Orders load failed"
                      ELSE "Products load failed")
     /\ setLoading(r, FALSE)
     /\ Arrived(r, i, NetworkFailure)
  /\ calls' = [calls EXCEPT ![i].pending = FALSE]
  /\ UNCHANGED <<orders, products, me, loadingMe, mePc, meTried>>
  /\ UNCHANGED <<shopVars, aggVars>>

\* loadMe up to the fetch of the first candidate; one retrieval is followed
\* at a time
loadMe ==
  /\ mePc = "idle"
  /\ err' = NoErr
  /\ loadingMe' = TRUE
  /\ mePc' = "primary"
  /\ meTried' = <<candidates[1]>>
  /\ UNCHANGED <<me, orders, loadingOrders, products, loadingProducts, calls,
                 lastArrival>>
  /\ UNCHANGED <<shopVars, aggVars>>

\* the condition  res.ok && data  of fetchMeProfile
returnsProfile_AnyOk(res) == res.ok

returnsProfile(res) == res.ok /\ safeJson(res.text).t # "null"

\* one turn of the loop of fetchMeProfile after its fetch settled, then the
\* rest of loadMe when the loop is left; returned says whether the turn ended
\* in  return data
fetchMeProfile(returned, data) ==
  IF returned
  THEN /\ me' = data
       /\ loadingMe' = FALSE
       /\ mePc' = "idle"
       /\ UNCHANGED <<err, meTried>>
  ELSE IF Len(meTried) < Len(candidates)
  THEN /\ mePc' = "secondary"
       /\ meTried' = Append(meTried, candidates[Len(meTried) + 1])
       /\ UNCHANGED <<err, me, loadingMe>>
  ELSE /\ err' = OrElse(ErrNoProfile, "Profile load failed")
       /\ loadingMe' = FALSE
       /\ mePc' = "idle"
       /\ UNCHANGED <<me, meTried>>

\* the candidate in flight answered
meResponded(res) ==
  /\ mePc # "idle"
  /\ fetchMeProfile(returnsProfile(res), safeJson(res.text))
  /\ UNCHANGED <<orders, loadingOrders, products, loadingProducts, calls,
                 lastArrival>>
  /\ UNCHANGED <<shopVars, aggVars>>

\* the fetch of the candidate in flight rejected: the empty catch
meFetchFailed ==
  /\ mePc # "idle"
  /\ fetchMeProfile(FALSE, JNull)
  /\ UNCHANGED <<orders, loadingOrders, products, loadingProducts, calls,
                 lastArrival>>
  /\ UNCHANGED <<shopVars, aggVars>>

NextLoad ==
  \/ loadOrders
  \/ loadProducts
  \/ \E i \in 1..(2 + MaxFetches), res \in ListResponses : loadSettled(i, res)
  \/ \E i \in 1..(2 + MaxFetches) : loadFetchFailed(i)
  \/ loadMe
  \/ \E res \in MeResponses : meResponded(res)
  \/ meFetchFailed

SpecLoad == InitLoad /\ [][NextLoad]_vars

(***************************************************************************)
(* The buyers aggregation of the backend: getSupplierBuyers.  The Order    *)
(* collection is any collection of up to MaxOrders orders, the Supermarket *)
(* collection any part of the directory; createdAt is the position of the  *)
(* order in the collection.                                                *)
(***************************************************************************)
MaxOrders == 3

Suppliers == {"S1", "S2"}
Buyers == {"m1", "m2"}
Amounts == {10, 20}

OrderDocs == [supplier : Suppliers, supermarket : Buyers, totalAmount : Amounts]

Collections == UNION {[1..n -> OrderDocs] : n \in 0..MaxOrders}

Directory ==
  {[_id |-> "m1", name |-> "Fresh", contactEmail |-> "fresh@x.lk",
    address |-> "1 Main Rd"],
   [_id |-> "m2", name |-> "Mart", contactEmail |-> "",
    address |-> "2 Lake Rd"]}

clientVars == <<shopVars, err, orders, loadingOrders, loadVars>>

InitAgg ==
  /\ cart = <<>>
  /\ err = NoErr
  /\ tab = "products"
  /\ placing = FALSE
  /\ checkoutOpen = FALSE
  /\ deliveryAddress = <<>>
  /\ deliveryDate = ""
  /\ paymentMethod = "cash"
  /\ orderNote = ""
  /\ orders = <<>>
  /\ loadingOrders = FALSE
  /\ pc = "idle"
  /\ payload = NoPayload
  /\ posts = 0
  /\ lastOp = Op("other", "")
  /\ edits = 0
  /\ lastAddSup = Null
  /\ sinceAdd = "none"
  /\ products = <<"a", "b", "c", "d">>
  /\ loadingProducts = FALSE
  /\ me = JObj("", <<>>, <<>>, "Fresh")
  /\ loadingMe = FALSE
  /\ calls = <<>>
  /\ lastArrival = NoArrivals
  /\ mePc = "idle"
  /\ meTried = <<>>
  /\ orderDocs \in Collections
  /\ markets \in SUBSET Directory
  /\ aggPc = "idle"
  /\ aggSupplier = Null
  /\ aggRows = <<>>
  /\ aggResult = NoResult

\* the documents of the Order collection
stored(docs) ==
  [i \in DOMAIN docs |->
     [_id |-> i, supplier |-> docs[i].supplier,
      supermarket |-> docs[i].supermarket,
      totalAmount |-> docs[i].totalAmount, createdAt |-> i]]

\* { $match: { supplier: supplierId } }
matchStage_All(ds, supplierId) == ds

matchStage(ds, supplierId) == SelectSeq(ds, LAMBDA d : d.supplier = supplierId)

\* the position of the group of a key, 0 if there is none yet
groupIndex(acc, key) ==
  IF \E k \in 1..Len(acc) : acc[k]._id = key
  THEN CHOOSE k \in 1..Len(acc) : acc[k]._id = key
  ELSE 0

RECURSIVE groupStage(_, _)
\* { $group: { _id: "$supermarket", totalOrders: { $sum: 1 },
\*             totalRevenue: { $sum: "$totalAmount" },
\*             lastOrderDate: { $max: "$createdAt" } } }
groupStage(ds, acc) ==
  IF Len(ds) = 0 THEN acc
  ELSE LET d == Head(ds)
           k == groupIndex(acc, d.supermarket)
       IN groupStage(Tail(ds),
            IF k = 0
            THEN Append(acc, [_id |-> d.supermarket, totalOrders |-> 1,
                              totalRevenue |-> d.totalAmount,
                              lastOrderDate |-> d.createdAt])
            ELSE [acc EXCEPT
                    ![k] = [_id |-> @._id,
                            totalOrders |-> @.totalOrders + 1,
                            totalRevenue |-> @.totalRevenue + d.totalAmount,
                            lastOrderDate |-> Max(@.lastOrderDate, d.createdAt)]])

\* { $sort: { totalRevenue: -1 } }: the orders the stage may give, the order
\* of rows of equal revenue being left open
sortStage(rows) ==
  {s \in [1..Len(rows) -> {rows[k] : k \in 1..Len(rows)}] :
     /\ \A i, j \in 1..Len(rows) : i # j => s[i] # s[j]
     /\ \A i, j \in 1..Len(rows) :
          i < j => s[i].totalRevenue >= s[j].totalRevenue}

\* one element of the result: the row joined with its Supermarket document
buyerSummary_NoName(r, found) ==
  LET sms == {m \in found : m._id = r._id}
      sm == CHOOSE m \in sms : TRUE
  IN [supermarketId |-> r._id,
      name |-> IF sms = {} THEN "" ELSE sm.name,
      contactEmail |-> IF sms = {} THEN "" ELSE OrElse(sm.contactEmail, ""),
      address |-> IF sms = {} THEN "" ELSE OrElse(sm.address, ""),
      totalOrders |-> r.totalOrders,
      totalRevenue |-> r.totalRevenue,
      lastOrderDate |-> r.lastOrderDate]

buyerSummary(r, found) ==
  LET sms == {m \in found : m._id = r._id}
      sm == CHOOSE m \in sms : TRUE
  IN [supermarketId |-> r._id,
      name |-> IF sms = {} THEN "Unknown" ELSE OrElse(sm.name, "Unknown"),
      contactEmail |-> IF sms = {} THEN "" ELSE OrElse(sm.contactEmail, ""),
      address |-> IF sms = {} THEN "" ELSE OrElse(sm.address, ""),
      totalOrders |-> r.totalOrders,
      totalRevenue |-> r.totalRevenue,
      lastOrderDate |-> r.lastOrderDate]

\* the request of supplier supplierId, up to the rows of Order.aggregate
getSupplierBuyers(supplierId) ==
  /\ aggPc = "idle"
  /\ aggSupplier' = supplierId
  /\ aggRows' \in sortStage(groupStage(matchStage(stored(orderDocs), supplierId),
                                       <<>>))
  /\ aggPc' = "find"
  /\ aggResult' = NoResult
  /\ UNCHANGED <<orderDocs, markets>>
  /\ UNCHANGED clientVars

\* Order.aggregate rejects: next(err)
aggregateFailed(supplierId) ==
  /\ aggPc = "idle"
  /\ aggSupplier' = supplierId
  /\ aggRows' = <<>>
  /\ aggResult' = [status |-> "error", body |-> <<>>]
  /\ UNCHANGED <<orderDocs, markets, aggPc>>
  /\ UNCHANGED clientVars

\* Supermarket.find resolves: the join and res.json(result)
findResolved ==
  /\ aggPc = "find"
  /\ LET supermarketIds == {aggRows[k]._id : k \in 1..Len(aggRows)}
         found == {m \in markets : m._id \in supermarketIds}
     IN aggResult' = [status |-> "json",
                      body |-> [k \in 1..Len(aggRows) |->
                                  buyerSummary(aggRows[k], found)]]
  /\ aggPc' = "idle"
  /\ UNCHANGED <<orderDocs, markets, aggSupplier, aggRows>>
  /\ UNCHANGED clientVars

\* Supermarket.find rejects: next(err)
findFailed ==
  /\ aggPc = "find"
  /\ aggResult' = [status |-> "error", body |-> <<>>]
  /\ aggPc' = "idle"
  /\ UNCHANGED <<orderDocs, markets, aggSupplier, aggRows>>
  /\ UNCHANGED clientVars

\* a Supermarket document is deleted while orders still refer to it
deleteSupermarket(m) ==
  /\ m \in markets
  /\ markets' = markets \ {m}
  /\ UNCHANGED <<orderDocs, aggPc, aggSupplier, aggRows, aggResult>>
  /\ UNCHANGED clientVars

NextAgg ==
  \/ \E s \in Suppliers : getSupplierBuyers(s)
  \/ \E s \in Suppliers : aggregateFailed(s)
  \/ findResolved
  \/ findFailed
  \/ \E m \in Directory : deleteSupermarket(m)

SpecAgg == InitAgg /\ [][NextAgg]_vars

(***************************************************************************)
(* Vocabulary of the properties, stated without the code's own helpers.    *)
(***************************************************************************)
HasLine(c, id) == \E i \in 1..Len(c) : c[i].product._id = id

QtyOf(c, id) == c[CHOOSE i \in 1..Len(c) : c[i].product._id = id].qty

\* c with the quantity of the line of id replaced by q, every other line kept
WithQty(c, id, q) ==
  [i \in 1..Len(c) |->
     IF c[i].product._id = id THEN Line(c[i].product, q) ELSE c[i]]

\* c without the line of id, every other line kept in order
WithoutLine(c, id) ==
  LET Other(x) == x.product._id # id IN SelectSeq(c, Other)

Clamp(n, lo, hi) == IF n < lo THEN lo ELSE IF n > hi THEN hi ELSE n

\* the supplier identifier an item resolves to, by any of its aliases
SupplierOf(p) ==
  LET ids == {p.supplier_id, p.supplierId, p.supplier_oid, p.supplier} \ {""}
  IN IF ids = {} THEN Null ELSE CHOOSE s \in ids : TRUE

IsBlank(a) == \A i \in 1..Len(a) : a[i] = " "

\* C1: in every reachable state all cart lines reference items of one
\* supplier, and supplierId() is that supplier, none exactly for the empty cart.
C1_SingleSupplier ==
  /\ \A i, j \in 1..Len(cart) :
       SupplierOf(cart[i].product) = SupplierOf(cart[j].product)
  /\ \A i \in 1..Len(cart) : cartSupplierId = SupplierOf(cart[i].product)
  /\ cartSupplierId = Null <=> Len(cart) = 0

C1_TwoLinesOneSupplier ==
  /\ Len(cart) = 2
  /\ lastOp.op = "add"
  /\ err = NoErr
  /\ cartSupplierId = "S1"

\* C2: add(item) is rejected with an error and leaves the cart lines and the
\* total unchanged when the item has no supplier (NoSupplierError) or when the
\* cart is non-empty and holds a line of another supplier (MixedSupplierError).
C2_AddRejected ==
  [][\A p \in Catalog :
       addToCart(p) =>
         /\ SupplierOf(p) = Null =>
              /\ cart' = cart
              /\ cartTotalOf(cart') = cartTotalOf(cart)
              /\ err' = ErrNoSupplier
         /\ ( /\ SupplierOf(p) # Null
              /\ \E i \in 1..Len(cart) : SupplierOf(cart[i].product) # SupplierOf(p) ) =>
              /\ cart' = cart
              /\ cartTotalOf(cart') = cartTotalOf(cart)
              /\ err' = ErrMixedSupplier]_vars

\* the example of the specification: add(A) succeeds, add(B) is rejected,
\* the cart remains [A x 1] with total 10
C2_MixedRejected ==
  /\ lastOp.op = "add"
  /\ err = ErrMixedSupplier
  /\ cart = <<Line(ItemA, 1)>>
  /\ cartTotal = JNum(10)

\* C3 as stated: an add whose supplier differs from the previous successful
\* add's succeeds only if clear() ran in between, and is otherwise rejected
\* with MixedSupplierError.
C3_SwitchOnlyAfterClear ==
  [][\A p \in Catalog :
       ( /\ addToCart(p)
         /\ SupplierOf(p) # Null
         /\ lastAddSup # Null
         /\ SupplierOf(p) # lastAddSup ) =>
         IF sinceAdd = "cleared"
         THEN cart' = <<Line(p, 1)>> /\ err' = NoErr
         ELSE cart' = cart /\ err' = ErrMixedSupplier]_vars

\* C3 amended: an add whose supplier differs from the previous successful
\* add's succeeds only if the cart became empty in between (by clear(), or by
\* decrement / setQuantity removing its last line), and is otherwise rejected
\* with MixedSupplierError.
C3_SwitchOnlyAfterEmpty ==
  [][\A p \in Catalog :
       ( /\ addToCart(p)
         /\ SupplierOf(p) # Null
         /\ lastAddSup # Null
         /\ SupplierOf(p) # lastAddSup ) =>
         IF sinceAdd \in {"cleared", "emptied"}
         THEN cart' = <<Line(p, 1)>> /\ err' = NoErr
         ELSE cart' = cart /\ err' = ErrMixedSupplier]_vars

C3_SwitchedAfterEmptied ==
  /\ lastOp.op = "addAfterEmptied"
  /\ Len(cart) = 1
  /\ cartSupplierId = lastAddSup

\* C4: every cart line's quantity is an integer in 1..999 in every reachable
\* state.
C4_QtyInRange ==
  \A i \in 1..Len(cart) : cart[i].qty \in 1..999

\* C5: for an item with a line in the cart, setQuantity(id, q) leaves that line
\* with quantity q clamped into 0..999, removes it when the clamped quantity is
\* 0, and leaves every other line unchanged.
C5_SetQuantityClamps ==
  [][\A id \in ProductIds, q \in QtyInputs :
       (updateQty(id, q) /\ q.t = "num" /\ HasLine(cart, id)) =>
         cart' = IF Clamp(q.v, 0, 999) = 0
                 THEN WithoutLine(cart, id)
                 ELSE WithQty(cart, id, Clamp(q.v, 0, 999))]_vars

\* C6: a successful add(item) raises the quantity of the item's existing line
\* by 1, capped at 999, and otherwise appends a new line of quantity 1; no
\* other line changes.
C6_AddEffect ==
  [][\A p \in Catalog :
       ( /\ addToCart(p)
         /\ SupplierOf(p) # Null
         /\ \A i \in 1..Len(cart) : SupplierOf(cart[i].product) = SupplierOf(p) ) =>
         cart' = IF HasLine(cart, p._id)
                 THEN WithQty(cart, p._id,
                              IF QtyOf(cart, p._id) + 1 > 999 THEN 999
                              ELSE QtyOf(cart, p._id) + 1)
                 ELSE cart \o <<Line(p, 1)>>]_vars

\* a successful add that left the single line of the cart at the cap
C6_AddedAtCap ==
  /\ lastOp.op = "add"
  /\ err = NoErr
  /\ cart = <<Line(ItemA, 999)>>

\* C7: increment raises the line's quantity by 1 but never above 999;
\* decrement lowers it by 1 and removes the line when it reaches 0; both leave
\* every other line unchanged and do nothing for an item not in the cart.
C7_IncDecEffect ==
  [][\A id \in ProductIds :
       /\ incQty(id) =>
            cart' = IF HasLine(cart, id)
                    THEN WithQty(cart, id,
                                 IF QtyOf(cart, id) >= 999 THEN 999
                                 ELSE QtyOf(cart, id) + 1)
                    ELSE cart
       /\ decQty(id) =>
            cart' = IF ~HasLine(cart, id) THEN cart
                    ELSE IF QtyOf(cart, id) <= 1 THEN WithoutLine(cart, id)
                    ELSE WithQty(cart, id, QtyOf(cart, id) - 1)]_vars

C7_IncrementedAtCap ==
  /\ lastOp = Op("increment", "c")
  /\ Len(cart) = 2
  /\ HasLine(cart, "c")
  /\ QtyOf(cart, "c") = 999

\* C8: from any reachable cart, increment then decrement of the same item
\* gives back the cart, unless the item's quantity is exactly 999.
C8_IncThenDecRestores ==
  \A id \in ProductIds :
    (HasLine(cart, id) => QtyOf(cart, id) # 999) =>
      decQtyFn(incQtyFn(cart, id), id) = cart

RECURSIVE ExactSum(_)
\* the sum of price x quantity, a missing or invalid price counting as zero
ExactSum(c) ==
  IF Len(c) = 0 THEN 0
  ELSE (IF Head(c).product.price.t = "num" /\ Head(c).product.price.v >= 0
        THEN Head(c).product.price.v ELSE 0) * Head(c).qty
       + ExactSum(Tail(c))

\* C9: total() is the exact sum of price x quantity over the cart lines in
\* every reachable state, a missing or invalid price counting as zero, and is
\* 0 for the empty cart.
C9_TotalExact ==
  cartTotal = JNum(ExactSum(cart))

LinesOf(c) ==
  [i \in 1..Len(c) |->
     [product_id |-> c[i].product._id, qty |-> c[i].qty,
      price |-> c[i].product.price]]

\* C11: an order-creation request that is rejected (non-2xx) or fails on the
\* network leaves the cart lines as they were, still the lines that were sent
\* when nothing edited the cart meanwhile, and surfaces an error message.
C11_FailedPostKeepsCart ==
  [][\A m \in ServerMessages :
       (postRejected(m) \/ postFailed(m)) =>
         /\ cart' = cart
         /\ edits = 0 => LinesOf(cart') = payload.items
         /\ err' # NoErr
         /\ pc' = "idle" /\ placing' = FALSE]_vars

\* the example of the specification: the server rejected the POST and the
\* cart still holds the submitted lines
C11_RejectedCartKept ==
  /\ err = ErrOrderFailed
  /\ cart = <<Line(ItemA, 1), Line(ItemC, 1)>>
  /\ pc = "idle"
  /\ ~placing

\* C12: whenever the order-creation request is accepted the cart is cleared
\* and GET /orders is issued; no other step of a submission changes the cart.
C12_ClearedOnlyWhenAccepted ==
  [][/\ postAccepted =>
          /\ cart' = <<>>
          /\ pc' = "refreshing"
          /\ loadingOrders' = TRUE
     /\ ( \/ confirmOrder
          \/ \E m \in ServerMessages : postRejected(m) \/ postFailed(m)
          \/ \E l \in OrderLists : ordersLoaded(l)
          \/ \E m \in ServerMessages : ordersFailed(m) ) => cart' = cart]_vars

\* an accepted order: the cart is empty and the refresh of the orders is
\* in flight
C12_AcceptedRefreshing ==
  /\ pc = "refreshing"
  /\ cart = <<>>
  /\ loadingOrders
  /\ tab = "orders"

RECURSIVE RequestSum(_)
\* the sum of quantity x price over request lines, a missing or invalid price
\* counting as zero
RequestSum(items) ==
  IF Len(items) = 0 THEN 0
  ELSE (IF Head(items).price.t = "num" /\ Head(items).price.v >= 0
        THEN Head(items).price.v ELSE 0) * Head(items).qty
       + RequestSum(Tail(items))

\* C13: the request built by a successful submit carries the cart's supplier
\* id and one line per cart line, in cart order, with the line's item id,
\* quantity and price, and its total is the sum of quantity x price over the
\* request's lines.
C13_RequestMatchesCart ==
  [][(confirmOrder /\ pc' = "posting") =>
       /\ \A i \in 1..Len(cart) :
            payload'.supplier_id = SupplierOf(cart[i].product)
       /\ Len(payload'.items) = Len(cart)
       /\ \A i \in 1..Len(cart) :
            /\ payload'.items[i].product_id = cart[i].product._id
            /\ payload'.items[i].qty = cart[i].qty
            /\ payload'.items[i].price = cart[i].product.price
       /\ payload'.total_amount = JNum(RequestSum(payload'.items))]_vars

\* C14: the payment method of every submitted request is one of cash, card
\* and bank, and is "cash" when the submission supplies none.
C14_PaymentMethodValid ==
  /\ pc = "posting" => payload.payment_method \in {"cash", "card", "bank"}
  /\ buildPayload(cart, cartSupplierId,
                  [delivery_address |-> deliveryAddress,
                   delivery_date |-> deliveryDate,
                   payment_method |-> "",
                   note |-> orderNote]).payment_method = "cash"

\* a request in flight that carries the method picked in the form
C14_CardSubmitted ==
  /\ pc = "posting"
  /\ paymentMethod = "card"
  /\ payload.payment_method = "card"

\* C15: clear() leaves the cart empty and the checkout form reset: modal
\* closed, address, date and note empty, payment method "cash", whatever the
\* state it is called in.
C15_ClearResets ==
  [][clearCart =>
       /\ cart' = <<>>
       /\ checkoutOpen' = FALSE
       /\ deliveryAddress' = <<>>
       /\ deliveryDate' = ""
       /\ orderNote' = ""
       /\ paymentMethod' = "cash"]_vars

\* clear() ran after a submission with a blank address was refused: the tab
\* is still "products", so no accepted order emptied the cart
C15_ClearedAfterFormUse ==
  /\ sinceAdd = "cleared"
  /\ tab = "products"
  /\ err = ErrNoAddress
  /\ cart = <<>>
  /\ paymentMethod = "cash"
  /\ ~checkoutOpen

\* the name a profile body carries
NameIn(text) ==
  IF text = TextProfileA THEN "Fresh"
  ELSE IF text = TextProfileB THEN "Mart"
  ELSE ""

\* the retrieval goes on to the secondary endpoint after the primary one, and
\* fails with the profile error after the secondary one
FallsBack ==
  IF meTried = <<PrimaryMe>>
  THEN /\ meTried' = <<PrimaryMe, SecondaryMe>>
       /\ mePc' = "secondary"
       /\ me' = me
       /\ err' = err
  ELSE /\ err' = ErrNoProfile
       /\ mePc' = "idle"
       /\ me' = me

\* the retrieval ends, showing the body of the response
ReturnsBody(res) ==
  /\ me'.t = "obj"
  /\ me'.name = NameIn(res.text)
  /\ mePc' = "idle"
  /\ meTried' = meTried
  /\ err' = err

Displayed(r) == IF r = "orders" THEN orders ELSE products

CallsOf(r) == {i \in DOMAIN calls : calls[i].resource = r}

\* two or more fetches of the resource were issued and all have completed
AllComplete(r) ==
  /\ Cardinality(CallsOf(r)) >= 2
  /\ \A i \in CallsOf(r) : ~calls[i].pending

\* the list a response carries for the resource, none for a failed response
ListIn(r, res) ==
  IF ~res.ok THEN <<>>
  ELSE IF res.text = TextArray THEN <<"n1">>
  ELSE IF res.text = TextOrders /\ r = "orders" THEN <<"n2">>
  ELSE IF res.text = TextProducts /\ r = "products" THEN <<"n3">>
  ELSE <<>>

\* C19 as stated: when fetches of the same resource overlap, the list on
\* display after all completed is the content of the response that arrived
\* last, whichever was issued first.
C19_LastArrivalShown ==
  \A r \in Resources :
    AllComplete(r) => Displayed(r) = ListIn(r, lastArrival[r].last.res)

\* C19 amended: when fetches of the same resource overlap, the list on display
\* after all completed is the content of the last response to arrive with a
\* 2xx status and a body other than JSON null, whichever was issued first; a
\* response that fails leaves the list as it was.
C19_LastUsableArrivalShown ==
  \A r \in Resources :
    AllComplete(r) => Displayed(r) = ListIn(r, lastArrival[r].good.res)

\* the Refresh of the orders was answered before the fetch of the mount
\* effect, whose list is the one on display
C19_EarlierCallArrivedLast ==
  /\ Len(calls) = 3
  /\ calls[3].resource = "orders"
  /\ AllComplete("orders")
  /\ lastArrival["orders"].last.call = 2
  /\ lastArrival["orders"].last.res = Response(TRUE, TextArray)
  /\ orders = <<"n1">>

\* the positions of the orders a supplier received from a buyer
OrdersOf(s, b) ==
  {i \in DOMAIN orderDocs :
     orderDocs[i].supplier = s /\ orderDocs[i].supermarket = b}

RECURSIVE SumAmounts(_)
SumAmounts(G) ==
  IF G = {} THEN 0
  ELSE LET i == CHOOSE i \in G : TRUE
       IN orderDocs[i].totalAmount + SumAmounts(G \ {i})

\* C16: buyersFor(supplierId) returns exactly one summary per distinct buyer
\* among the orders whose supplier is supplierId, each with the number of the
\* group's orders, the sum of their totalAmount and their latest createdAt,
\* sorted by summed revenue, highest first.
C16_OneSummaryPerBuyer ==
  aggResult.status = "json" =>
    LET body == aggResult.body IN
    /\ \A b \in Buyers :
         OrdersOf(aggSupplier, b) # {} <=>
           \E k \in 1..Len(body) : body[k].supermarketId = b
    /\ \A k, l \in 1..Len(body) :
         body[k].supermarketId = body[l].supermarketId => k = l
    /\ \A k \in 1..Len(body) :
         LET G == OrdersOf(aggSupplier, body[k].supermarketId) IN
         /\ body[k].totalOrders = Cardinality(G)
         /\ body[k].totalRevenue = SumAmounts(G)
         /\ body[k].lastOrderDate \in G
         /\ \A i \in G : i <= body[k].lastOrderDate
    /\ \A k, l \in 1..Len(body) :
         k < l => body[k].totalRevenue >= body[l].totalRevenue

\* two buyers of supplier S1: m1 with two orders worth 30, the later one the
\* third order of the collection, ahead of m2 with one order worth 20
C16_TwoBuyersRanked ==
  /\ aggResult.status = "json"
  /\ aggSupplier = "S1"
  /\ Len(aggResult.body) = 2
  /\ aggResult.body[1].supermarketId = "m1"
  /\ aggResult.body[1].totalOrders = 2
  /\ aggResult.body[1].totalRevenue = 30
  /\ aggResult.body[1].lastOrderDate = 3
  /\ aggResult.body[2].totalRevenue = 20

\* C17: when the Supermarket document of a group's buyer cannot be found, the
\* request is still answered with one summary per group, that of the missing
\* buyer with the name "Unknown" and empty email and address, the others with
\* the fields of their documents.
C17_MissingBuyerUnknown ==
  [][findResolved =>
       /\ aggResult'.status = "json"
       /\ Len(aggResult'.body) = Len(aggRows)
       /\ \A k \in 1..Len(aggRows) :
            LET summary == aggResult'.body[k]
                id == aggRows[k]._id
            IN /\ summary.supermarketId = id
               /\ summary.totalOrders = aggRows[k].totalOrders
               /\ summary.totalRevenue = aggRows[k].totalRevenue
               /\ summary.lastOrderDate = aggRows[k].lastOrderDate
               /\ IF \A m \in markets : m._id # id
                  THEN /\ summary.name = "Unknown"
                       /\ summary.contactEmail = ""
                       /\ summary.address = ""
                  ELSE \E m \in markets :
                         /\ m._id = id
                         /\ summary.name = m.name
                         /\ summary.contactEmail = m.contactEmail
                         /\ summary.address = m.address]_vars

\* the document of m1 is gone, that of m2 is there: both are summarised
C17_UnknownBesideKnown ==
  /\ aggResult.status = "json"
  /\ Len(aggResult.body) = 2
  /\ aggResult.body[1].supermarketId = "m1"
  /\ aggResult.body[1].name = "Unknown"
  /\ aggResult.body[1].contactEmail = ""
  /\ aggResult.body[2].supermarketId = "m2"
  /\ aggResult.body[2].name = "Mart"

\* C20: under every interleaving of cart operations with an order-creation
\* request in flight, the lines removed from the cart when the request is
\* accepted are exactly the lines that were sent in the request.
C20_RemovedLinesWereSent ==
  [][postAccepted => LinesOf(cart) = payload.items]_vars

\* C21: at most one order-creation request is in flight at any time: while a
\* submission is pending placing is true and no step sends a second request,
\* and placing returns to false after every outcome of the submission: at
\* once when the request is rejected or fails, and once the refresh of the
\* orders has settled when it is accepted.
C21_OneSubmissionAtATime ==
  /\ [](posts <= 1)
  /\ [](pc # "idle" <=> placing)
  /\ [](posts = 1 <=> pc = "posting")
  /\ [][placing => posts' <= posts]_vars
  /\ [][(pc = "posting" /\ pc' = "idle") => ~placing']_vars
  /\ [][(pc = "refreshing" /\ pc' # "refreshing") =>
          pc' = "idle" /\ ~placing']_vars
  /\ placing ~> ~placing

\* a request is in flight and the modal, still open, holds another address
\* than the one that was sent: Confirm Order is disabled
C21_PendingBehindOpenModal ==
  /\ pc = "posting"
  /\ placing
  /\ checkoutOpen
  /\ deliveryAddress # payload.delivery_address

====
